---------------------------- MODULE Spec2Model ----------------------------
(***************************************************************************)
(* A model of the AD7291 SAR ADC driver (src/ad7291.py).                   *)
(*                                                                         *)
(* One driver object is modelled through its life: the constructor call,   *)
(* then calls of its methods and properties.  The I2C bus device is the    *)
(* environment: every transaction a call issues is appended to `bus`, and  *)
(* the bytes a read returns are chosen by the environment.                 *)
(*                                                                         *)
(* Python values are modelled as follows: a bytearray is a sequence of     *)
(* integers 0..255 (Python index i is TLA+ index i + 1); an exception is   *)
(* the name of its class; None is the empty tuple and an integer n used    *)
(* where None may also occur is <<n>>; the float temperature/4 is kept as  *)
(* its numerator, a whole number of quarter degrees.                       *)
(***************************************************************************)
EXTENDS Integers, Sequences, FiniteSets, TLC

VARIABLES
    status,              \* "new": not constructed; "ready": __init__ returned;
                         \* "raised": __init__ raised, the caller holds no object
    active_channels,     \* self.active_channels
    channels,            \* self.channels
    tsense,              \* self.tsense
    noise,               \* self.noise
    num_active_channels, \* self.num_active_channels
    settings,            \* self.settings
    buf,                 \* self.buf
    bus,                 \* the transactions of the most recent call, in order
    call,                \* the most recent call: [op, args, exc, ret]
    ncalls               \* calls made on the constructed driver

vars == <<status, active_channels, channels, tsense, noise, num_active_channels,
          settings, buf, bus, call, ncalls>>

\* the fields __init__ assigns and no other method changes
config == <<active_channels, channels, tsense, noise, num_active_channels, settings>>

-----------------------------------------------------------------------------
(* Bounds of the model. *)

\* The largest number_of_active_channels passed to the constructor.
MaxCount == 8

\* The calls made on one driver after its construction.
MaxCalls == 2

-----------------------------------------------------------------------------
(* Register addresses, page 16 of the datasheet. *)

COMMAND_REGISTER == 0

VOLTAGE_CONVERSION == 1

T_SENSE_CONVERSION_RESULT == 2

\* _CH0_DATA_HIGH .. _CH7_DATA_HIGH, _T_SENSE_DATA_HIGH, by channel 0..8
DATA_HIGH == <<4, 7, 10, 13, 16, 19, 22, 25, 28>>

\* _CH0_DATA_LOW .. _CH7_DATA_LOW, _T_SENSE_DATA_LOW, by channel 0..8
DATA_LOW == <<5, 8, 11, 14, 17, 20, 23, 26, 29>>

-----------------------------------------------------------------------------
(* Integer arithmetic of the source. *)

RECURSIVE Pow2(_)
Pow2(n) == IF n = 0 THEN 1 ELSE 2 * Pow2(n - 1)

\* x << n
shl(x, n) == x * Pow2(n)

\* x >> n (floor division, as Python's on negative x)
shr(x, n) == x \div Pow2(n)

\* a & b for a, b >= 0
RECURSIVE BitAnd(_, _)
BitAnd(a, b) ==
    IF a = 0 \/ b = 0 THEN 0
    ELSE (a % 2) * (b % 2) + 2 * BitAnd(a \div 2, b \div 2)

\* x & ((1 << k) - 1), for any integer x
Mask(x, k) == x % Pow2(k)

\* a | b for a, b >= 0
RECURSIVE BitOr(_, _)
BitOr(a, b) ==
    IF a = 0 THEN b
    ELSE IF b = 0 THEN a
    ELSE (IF a % 2 = 1 \/ b % 2 = 1 THEN 1 ELSE 0) + 2 * BitOr(a \div 2, b \div 2)

\* whether bit n of x is set
Bit(x, n) == shr(x, n) % 2 = 1

-----------------------------------------------------------------------------
(* channel_list_to_bits, lines 123-133 *)

\* the loop of lines 130-132 over the first n entries of channel_list
RECURSIVE ChannelBitsLoop(_, _)
ChannelBitsLoop(channel_list, n) ==
    IF n = 0 THEN 0
    ELSE ChannelBitsLoop(channel_list, n - 1)
         + (IF channel_list[n] THEN shl(1, 7 - (n - 1)) ELSE 0)

\* channel_list_to_bits with the bit order reversed: channel i sets bit i
channel_list_to_bits_lsb(channel_list) ==
    LET n == Len(channel_list)
        mirrored == [j \in 1..n |-> channel_list[n + 1 - j]]
        result == ChannelBitsLoop(mirrored, n)
        i == n - 1
    IN  BitAnd(result, shl(i, 8) - 1)

\* i is the loop's last index; the list is not empty (an empty list leaves i
\* unbound and the return statement raises)
channel_list_to_bits(channel_list) ==
    LET result == ChannelBitsLoop(channel_list, Len(channel_list))
        i == Len(channel_list) - 1
    IN  BitAnd(result, shl(i, 8) - 1)

-----------------------------------------------------------------------------
(* Statements on self.buf.  An execution is [buf, exc]: the buffer so far  *)
(* and the exception raised, "none" while it runs.                         *)

None == <<>>

Run(b) == [buf |-> b, exc |-> "none"]

\* self.buf[i] = v for an integer v
SetItem(s, i, v) ==
    IF s.exc # "none" THEN s
    ELSE IF i >= Len(s.buf) THEN [s EXCEPT !.exc = "IndexError"]
    ELSE IF v \notin 0..255 THEN [s EXCEPT !.exc = "ValueError"]
    ELSE [s EXCEPT !.buf[i + 1] = v]

\* self.buf[i] = obj for an object that is None or <<integer>>
SetItemObj(s, i, obj) ==
    IF s.exc # "none" THEN s
    ELSE IF obj = None THEN [s EXCEPT !.exc = "TypeError"]
    ELSE SetItem(s, i, obj[1])

\* bytearray(n): n zero bytes
Zeros(n) == [j \in 1..n |-> 0]

\* device.write(buf, end=n); a slice stops at the buffer's end
Write(b, n) ==
    [kind |-> "write", data |-> SubSeq(b, 1, IF n < Len(b) THEN n ELSE Len(b))]

\* device.readinto(buf, end=n) returning the bytes `reply`
Read(reply) == [kind |-> "read", data |-> reply]

\* the buffer after readinto stored `reply` at its start
Stored(b, reply) ==
    [j \in 1..Len(b) |-> IF j <= Len(reply) THEN reply[j] ELSE b[j]]

-----------------------------------------------------------------------------
(* Inputs. *)

\* a bool list of length 8 from the set of enabled channels 0..7
ChannelList(S) == [j \in 1..8 |-> (j - 1) \in S]

\* every bool list of length 8
AllChannelLists == { ChannelList(S) : S \in SUBSET (0..7) }

\* the number of True entries of a bool list
Enabled(list) == Cardinality({ j \in 1..Len(list) : list[j] })

\* the enable sets the driver is constructed with: the default, one channel,
\* the spec's scenario {0,2,4}, a high channel and all channels
EnableSets == { {}, {0}, {0, 2}, {0, 2, 4}, {7}, 0..7 }

ChannelLists == { ChannelList(S) : S \in EnableSets }

\* 2-byte conversion frames the device returns: channel tag 0 with the
\* largest code, tag 9 (no channel), tag 8 (the temperature channel)
Frames == { <<15, 255>>, <<156, 1>>, <<138, 16>> }

\* every 2-byte frame
AllFrames == { <<b0, b1>> : b0 \in 0..255, b1 \in 0..255 }

\* a reply of n bytes that alternates the frames f and g
Alternate(f, g, n) ==
    [j \in 1..n |-> IF ((j - 1) \div 2) % 2 = 0 THEN f[2 - (j % 2)] ELSE g[2 - (j % 2)]]

\* the replies to a read of n bytes
Replies(n) == { Alternate(f, g, n) : f \in Frames, g \in Frames }

\* channel arguments of the limit methods: below range, 0, 3, the
\* temperature channel 8, above range
Channels == { -1, 0, 3, 8, 9 }

\* limit values: the 12-bit range's ends and the first value above it
LimitValues == { 0, 4095, 4096 }

-----------------------------------------------------------------------------
(* The driver. *)

Init ==
    /\ status = "new"
    /\ active_channels = <<>>
    /\ channels = 0
    /\ tsense = FALSE
    /\ noise = FALSE
    /\ num_active_channels = 0
    /\ settings = 0
    /\ buf = <<>>
    /\ bus = <<>>
    /\ call = [op |-> "none", args |-> <<>>, exc |-> "none", ret |-> <<>>]
    /\ ncalls = 0

\* a call of method `op` on the constructed driver ended: with exception exc
\* ("none": it returned ret)
Called(op, args, exc, ret) ==
    /\ call' = [op |-> op, args |-> args, exc |-> exc, ret |-> ret]
    /\ ncalls' = ncalls + 1

\* __init__, lines 73-121; channel_list is the argument active_channels
AD7291_init(number_of_active_channels, channel_list, enable_temp_conversions, enable_noise_delay) ==
    LET bits == channel_list_to_bits(channel_list)
        flags == (IF enable_temp_conversions THEN shl(1, 7) ELSE 0)
                 + (IF enable_noise_delay THEN shl(1, 5) ELSE 0)
        s == SetItem(SetItem(SetItem(Run(Zeros(2 * number_of_active_channels)),
                                     0, COMMAND_REGISTER), 1, bits), 2, flags)
    IN  /\ status = "new"
        /\ active_channels' = channel_list
        /\ channels' = bits
        /\ tsense' = enable_temp_conversions
        /\ noise' = enable_noise_delay
        /\ num_active_channels' = number_of_active_channels
        /\ settings' = flags
        /\ buf' = s.buf
        /\ call' = [op |-> "__init__", args |-> <<>>, exc |-> s.exc, ret |-> <<>>]
        /\ ncalls' = 0
        /\ IF s.exc = "none"
           THEN status' = "ready" /\ bus' = <<Write(s.buf, 3)>>
           ELSE status' = "raised" /\ bus' = <<>>

\* the attributes of an AD7291 object: those __init__ assigns and the
\* methods and properties the class defines
Attributes ==
    { "i2c_device", "active_channels", "channels", "tsense", "noise",
      "num_active_channels", "settings", "buf",
      "channel_list_to_bits", "get_channel", "set_channel_upper_limit",
      "set_channel_lower_limit", "get_channel_limits", "read_from_voltage",
      "read_temperature_conversion" }

\* get_channel, lines 135-170: the execution after the call; the method has no
\* return statement, so the call's value is None
get_channel(s, channel, polarity) ==
    LET dict == [low |-> DATA_LOW, high |-> DATA_HIGH]
    IN  IF s.exc # "none" THEN s
        ELSE IF channel \notin 0..8 THEN [s EXCEPT !.exc = "KeyError"]
        ELSE SetItem(s, 0, dict[polarity][channel + 1])

\* lines 178-181 and 199-202: each statement builds a RuntimeError and drops
\* it, whatever the condition; nothing is raised
LimitArgumentChecks(s, channel, value) == s

\* lines 184-191, and lines 205-212 with polarity "low" and end = 2: the
\* lookup of self.get_channel_limit, then the stores and the write
SetLimit(op, channel, value, end) ==
    LET s0 == LimitArgumentChecks(Run(buf), channel, value)
        s1 == IF "get_channel_limit" \in Attributes
              THEN s0
              ELSE [s0 EXCEPT !.exc = "AttributeError"]
        s2 == SetItem(s1, 1, Mask(shr(value, 8), 8))
        s3 == SetItem(s2, 2, Mask(value, 8))
    IN  /\ status = "ready"
        /\ buf' = s3.buf
        /\ bus' = IF s3.exc = "none" THEN <<Write(s3.buf, end)>> ELSE <<>>
        /\ Called(op, <<channel, value>>, s3.exc, <<>>)
        /\ UNCHANGED <<status, config>>

\* set_channel_upper_limit, lines 172-191
set_channel_upper_limit(channel, value) ==
    SetLimit("set_channel_upper_limit", channel, value, 3)

\* set_channel_lower_limit, lines 193-212
set_channel_lower_limit(channel, value) ==
    SetLimit("set_channel_lower_limit", channel, value, 2)

\* get_channel_limits, lines 214-244; high_reply and low_reply are the bytes
\* the two reads return
get_channel_limits(channel, high_reply, low_reply) ==
    LET s1 == get_channel(Run(buf), channel, "high")
        ch_high == None
        s2 == get_channel(s1, channel, "low")
        ch_low == None
        s3 == SetItemObj(s2, 0, ch_high)
        b3 == Stored(s3.buf, high_reply)
        high == shl(b3[1], 8) + b3[2]
        s4 == SetItemObj([s3 EXCEPT !.buf = b3], 0, ch_low)
        b4 == Stored(s4.buf, low_reply)
        low == shl(b4[1], 8) + b4[2]
    IN  /\ status = "ready"
        /\ IF s3.exc # "none"
           THEN /\ buf' = s3.buf
                /\ bus' = <<>>
                /\ Called("get_channel_limits", <<channel>>, s3.exc, <<>>)
           ELSE IF s4.exc # "none"
           THEN /\ buf' = s4.buf
                /\ bus' = <<Write(s3.buf, 1), Read(high_reply)>>
                /\ Called("get_channel_limits", <<channel>>, s4.exc, <<>>)
           ELSE /\ buf' = b4
                /\ bus' = <<Write(s3.buf, 1), Read(high_reply),
                            Write(s4.buf, 1), Read(low_reply)>>
                /\ Called("get_channel_limits", <<channel>>, "none", <<low, high>>)
        /\ UNCHANGED <<status, config>>

\* lines 269-277: the (channel, voltage) pair of the entry at buf[i], buf[i + 1];
\* the RuntimeError of line 271 is built and dropped
VoltageEntry(b, i) ==
    LET channel == Mask(shr(b[i + 1], 4), 4)
        voltage == shl(Mask(b[i + 1], 4), 8) + b[i + 2]
    IN  <<channel, voltage>>

\* read_from_voltage, lines 246-279; reply holds the bytes the read returns,
\* one for every byte of self.buf
read_from_voltage(reply) ==
    LET s == SetItem(Run(buf), 0, VOLTAGE_CONVERSION)
        b == Stored(s.buf, reply)
        res == [j \in 1..num_active_channels |-> VoltageEntry(b, 2 * (j - 1))]
    IN  /\ status = "ready"
        /\ Len(reply) = Len(buf)
        /\ IF s.exc # "none"
           THEN /\ buf' = s.buf
                /\ bus' = <<>>
                /\ Called("read_from_voltage", <<>>, s.exc, <<>>)
           ELSE /\ buf' = b
                /\ bus' = <<Write(s.buf, 1), Read(reply)>>
                /\ Called("read_from_voltage", <<>>, "none", res)
        /\ UNCHANGED <<status, config>>

\* the code without the mask of line 302: all 16 bits of the frame
TemperatureCodeWide(b) == shl(b[1], 8) + b[2]

\* lines 302-304: the 12-bit code of the frame at buf[0], buf[1]
TemperatureCode(b) == shl(Mask(b[1], 4), 8) + b[2]

\* lines 306-309: the value returned, as its numerator over 4
TemperatureResult(temperature) ==
    IF temperature > 4096 THEN 4096 - temperature ELSE temperature

\* read_temperature_conversion, lines 281-309; frame holds the 2 bytes the
\* read returns.  Lines 289-290 and 299-300 build a RuntimeError and drop it.
read_temperature_conversion(frame) ==
    LET s == SetItem(Run(buf), 0, T_SENSE_CONVERSION_RESULT)
        n == IF Len(s.buf) < 2 THEN Len(s.buf) ELSE 2
        reply == SubSeq(frame, 1, n)
        b == Stored(s.buf, reply)
    IN  /\ status = "ready"
        /\ IF s.exc # "none"
           THEN /\ buf' = s.buf
                /\ bus' = <<>>
                /\ Called("read_temperature_conversion", <<>>, s.exc, <<>>)
           ELSE /\ buf' = b
                /\ bus' = <<Write(s.buf, 1), Read(reply)>>
                /\ Called("read_temperature_conversion", <<>>, "none",
                          <<TemperatureResult(TemperatureCode(b))>>)
        /\ UNCHANGED <<status, config>>

-----------------------------------------------------------------------------
(* The driver's life: one construction, then up to MaxCalls calls. *)

Construct ==
    \E n \in 0..MaxCount, list \in ChannelLists, t \in BOOLEAN, d \in BOOLEAN :
        AD7291_init(n, list, t, d)

SetUpperLimit ==
    /\ ncalls < MaxCalls
    /\ \E channel \in Channels, value \in LimitValues :
           set_channel_upper_limit(channel, value)

SetLowerLimit ==
    /\ ncalls < MaxCalls
    /\ \E channel \in Channels, value \in LimitValues :
           set_channel_lower_limit(channel, value)

GetLimits ==
    /\ ncalls < MaxCalls
    /\ \E channel \in Channels, h \in Frames, l \in Frames :
           get_channel_limits(channel, h, l)

ReadVoltage ==
    /\ ncalls < MaxCalls
    /\ \E reply \in Replies(Len(buf)) : read_from_voltage(reply)

ReadTemperature ==
    /\ ncalls < MaxCalls
    /\ \E frame \in Frames : read_temperature_conversion(frame)

Next ==
    \/ Construct
    \/ SetUpperLimit
    \/ SetLowerLimit
    \/ GetLimits
    \/ ReadVoltage
    \/ ReadTemperature

Spec == Init /\ [][Next]_vars

-----------------------------------------------------------------------------
(* Construction alone, over every bool list of length 8. *)

ConstructAny ==
    \E n \in 0..MaxCount, list \in AllChannelLists, t \in BOOLEAN, d \in BOOLEAN :
        AD7291_init(n, list, t, d)

SpecConfig == Init /\ [][ConstructAny]_vars

(* The first temperature read of a new driver, over every 2-byte frame.    *)
(* The read stores the frame over buf[0], buf[1] and decodes these two     *)
(* bytes alone, so an earlier call does not change what it returns.        *)

ConstructTwoChannels ==
    \E t \in BOOLEAN : AD7291_init(2, ChannelList({0, 2}), t, FALSE)

FirstTemperatureRead ==
    /\ ncalls = 0
    /\ \E frame \in AllFrames : read_temperature_conversion(frame)

NextTemp ==
    \/ ConstructTwoChannels
    \/ FirstTemperatureRead

SpecTemp == Init /\ [][NextTemp]_vars

-----------------------------------------------------------------------------
(* What the specification says of the bytes, stated apart from the code. *)

\* the enable mask: bit (7 - i) set iff channel i is enabled
EnableMask(list) ==
    CHOOSE m \in 0..255 : \A i \in 0..7 : Bit(m, 7 - i) <=> list[i + 1]

\* the flags byte: bit 7 temperature, bit 5 noise delay
FlagsByte(t, d) == (IF t THEN 128 ELSE 0) + (IF d THEN 32 ELSE 0)

\* the channel tag of a conversion frame: byte0 >> 4
FrameTag(byte0) == byte0 \div 16

\* the 12-bit code of a conversion frame: ((byte0 & 0x0F) << 8) | byte1
FrameCode(byte0, byte1) == BitOr(shl(BitAnd(byte0, 15), 8), byte1)

\* the data-high and data-low register of channel n in 0..8
HighPointer(n) == IF n = 8 THEN 28 ELSE 4 + 3 * n

LowPointer(n) == IF n = 8 THEN 29 ELSE 5 + 3 * n

\* a 1-byte pointer write of register p
PointerWrite(p) == [kind |-> "write", data |-> <<p>>]

\* the exceptions that reject an argument
ValidationErrors == { "RuntimeError", "ValueError", "KeyError" }

LimitSetters == { "set_channel_upper_limit", "set_channel_lower_limit" }

-----------------------------------------------------------------------------
(* The claims. *)

\* C1: constructing the driver with any configuration (any enable set, any
\* flags, any active-channel count in 0..8) completes and issues exactly one
\* bus write, of the 3 bytes 0x00, the channel-enable mask and the flags byte.
C1_ConstructionWritesCommand ==
    call.op = "__init__" =>
        /\ status = "ready"
        /\ bus = << [kind |-> "write",
                     data |-> <<0, EnableMask(active_channels),
                                FlagsByte(tsense, noise)>>] >>

\* C2: for every k in 0..8, a driver configured with k enabled channels and
\* active count k exists, and read_voltages on it issues a 1-byte pointer
\* write of register 1, then one read of 2k bytes b, and returns the k pairs
\* (b[2j] >> 4, ((b[2j] & 0x0F) << 8) | b[2j+1]) in order; for k = 0 the read
\* has length 0 and the result is empty.
C2_ReadVoltagesFrame ==
    LET k == Enabled(active_channels)
    IN  /\ (status # "new" /\ num_active_channels = k) => status = "ready"
        /\ (call.op = "read_from_voltage" /\ num_active_channels = k) =>
               /\ call.exc = "none"
               /\ Len(bus) = 2
               /\ bus[1] = PointerWrite(1)
               /\ bus[2].kind = "read"
               /\ Len(bus[2].data) = 2 * k
               /\ call.ret = [j \in 1..k |->
                                 <<FrameTag(bus[2].data[2 * j - 1]),
                                   FrameCode(bus[2].data[2 * j - 1],
                                             bus[2].data[2 * j])>>]

\* C3: for every bool list of length 8, the command-register high byte the
\* driver computes has bit (7 - i) set iff channel i is enabled, so the byte
\* decodes to exactly the enabled set; it is the byte written after the
\* register address.
C3_ChannelZeroIsMsb ==
    status # "new" =>
        /\ channels \in 0..255
        /\ { i \in 0..7 : Bit(channels, 7 - i) }
               = { i \in 0..7 : active_channels[i + 1] }
        /\ status = "ready" => bus[1].data[2] = channels

\* C3's case: the scenario's set {0, 2, 4} was configured and gave 0xA8.
C3_Witness ==
    /\ status = "ready"
    /\ active_channels = ChannelList({0, 2, 4})
    /\ channels = 168
    /\ bus[1].data[2] = 168

\* C4: for every channel n in 0..8 and value v in 0..4095, set_upper_limit and
\* set_lower_limit succeed and issue exactly one write of 3 bytes: the
\* data-high (data-low) pointer of n, then v >> 8, then v & 0xFF.
C4_SetLimitWritesThreeBytes ==
    (/\ call.op \in LimitSetters
     /\ call.args[1] \in 0..8
     /\ call.args[2] \in 0..4095) =>
        LET n == call.args[1]
            v == call.args[2]
            p == IF call.op = "set_channel_upper_limit"
                 THEN HighPointer(n) ELSE LowPointer(n)
        IN  /\ call.exc = "none"
            /\ bus = << [kind |-> "write", data |-> <<p, v \div 256, v % 256>>] >>

\* C5: for every channel n in 0..8, get_limits succeeds: a 1-byte pointer
\* write and a 2-byte read for the data-high register, then for the data-low
\* register, and it returns (low, high), each (byte0 << 8) | byte1 of its read.
C5_GetLimitsReadsBothRegisters ==
    (call.op = "get_channel_limits" /\ call.args[1] \in 0..8) =>
        /\ call.exc = "none"
        /\ Len(bus) = 4
        /\ bus[1] = PointerWrite(HighPointer(call.args[1]))
        /\ bus[2].kind = "read" /\ Len(bus[2].data) = 2
        /\ bus[3] = PointerWrite(LowPointer(call.args[1]))
        /\ bus[4].kind = "read" /\ Len(bus[4].data) = 2
        /\ call.ret = << BitOr(shl(bus[4].data[1], 8), bus[4].data[2]),
                         BitOr(shl(bus[2].data[1], 8), bus[2].data[2]) >>

\* C6: a limit operation with an out-of-range argument (a channel outside
\* 0..8, or for the setters a value outside 0..4095) fails with a validation
\* error and issues no bus transaction.
C6_OutOfRangeFailsValidation ==
    (\/ /\ call.op \in LimitSetters
        /\ (call.args[1] \notin 0..8 \/ call.args[2] \notin 0..4095)
     \/ /\ call.op = "get_channel_limits"
        /\ call.args[1] \notin 0..8) =>
        /\ call.exc \in ValidationErrors
        /\ bus = <<>>

\* C7: with temperature_enabled false, read_temperature fails with a
\* validation error, issues no bus transaction and returns no value.
C7_TemperatureDisabledFails ==
    (call.op = "read_temperature_conversion" /\ ~tsense) =>
        /\ call.exc \in ValidationErrors
        /\ bus = <<>>
        /\ call.ret = <<>>

\* C8: a conversion frame with an unexpected channel tag is a framing error
\* and is never returned: read_voltages fails when an entry's byte0 >> 4 is
\* outside 0..7, read_temperature fails when byte0 >> 4 is not 8.
C8_UnexpectedTagFails ==
    /\ (/\ call.op = "read_from_voltage"
        /\ Len(bus) = 2
        /\ \E j \in 1..(Len(bus[2].data) \div 2) :
               FrameTag(bus[2].data[2 * j - 1]) \notin 0..7) =>
           (call.exc # "none" /\ call.ret = <<>>)
    /\ (/\ call.op = "read_temperature_conversion"
        /\ Len(bus) = 2
        /\ FrameTag(bus[2].data[1]) # 8) =>
           (call.exc # "none" /\ call.ret = <<>>)

\* C9: in every state of a constructed driver the active-channel count equals
\* the number of enabled channels (a configuration where they differ is
\* rejected), so read_voltages reads 2 * (number of enabled channels) bytes.
C9_CountEqualsEnabled ==
    /\ status = "ready" => num_active_channels = Enabled(active_channels)
    /\ (call.op = "read_from_voltage" /\ Len(bus) = 2) =>
           Len(bus[2].data) = 2 * Enabled(active_channels)

\* C10: for every 2-byte temperature frame the decoded code
\* ((byte0 & 0x0F) << 8) | byte1 is at most 4095, the branch for codes above
\* 4096 is not taken, and the result is code / 4, never negative.
C10_TemperatureIsCodeOverFour ==
    call.op = "read_temperature_conversion" =>
        LET code == FrameCode(bus[2].data[1], bus[2].data[2])
        IN  /\ call.exc = "none"
            /\ code <= 4095
            /\ call.ret = <<code>>
            /\ call.ret[1] >= 0

\* C10's case: the frame 0xFF 0xFF, the largest code, was read and decoded.
C10_Witness ==
    /\ call.op = "read_temperature_conversion"
    /\ bus[2].data = <<255, 255>>
    /\ call.ret = <<4095>>

=============================================================================
